---- MODULE Spec2Model ----
(***************************************************************************)
(* Model of Patch-Starter-Script: patchstarter.py (the command-line tool)  *)
(* and title_manager.py (the TitleManager class).                          *)
(*                                                                         *)
(* A Python string is a sequence of one-character strings, a bytes object  *)
(* a sequence of numbers 0..255.  A Python value is a tagged record        *)
(* [t |-> type, v |-> payload]: t is "str", "int" (any JSON-serialisable   *)
(* value that is not a string), "date" (a plist value json cannot          *)
(* serialise: datetime, bytes, UID), "none", "list", "bool", or "absent"   *)
(* (a key the manifest does not have).                                     *)
(***************************************************************************)
EXTENDS Integers, Sequences, FiniteSets, TLC

(***************************************************************************)
(* Bounds of the model.                                                    *)
(***************************************************************************)
\* A generated name is the concatenation of at most MaxParts tokens.
MaxParts == 3
\* An attachment file holds at most MaxFileLen bytes.
MaxFileLen == 3
\* At most MaxAttach attachment paths are supplied.
MaxAttach == 2

(***************************************************************************)
(* Python values.                                                          *)
(***************************************************************************)
S(s) == [t |-> "str", v |-> s]
None == [t |-> "none", v |-> <<>>]
Absent == [t |-> "absent", v |-> <<>>]
PyTrue == [t |-> "bool", v |-> <<"true">>]
PyFalse == [t |-> "bool", v |-> <<"false">>]
\* A non-string value json can serialise (an <integer> of the plist).
PyInt == [t |-> "int", v |-> <<"7">>]
\* A value json cannot serialise (a <date> or <data> of the plist).
PyDate == [t |-> "date", v |-> <<"2020-01-01">>]

\* bool(x) of Python: None, "" and [] are false.
Truthy(x) == x.t # "none" /\ ~(x.t \in {"str", "list"} /\ x.v = <<>>)
\* a or b
Or(a, b) == IF Truthy(a) THEN a ELSE b

(***************************************************************************)
(* String operations.                                                      *)
(***************************************************************************)
Space == " "
Tab == "\t"
Sep == "/"
DotApp == <<".", "a", "p", "p">>

\* s.startswith(p), s.endswith(p)
StartsWith(s, p) == Len(s) >= Len(p) /\ SubSeq(s, 1, Len(p)) = p
EndsWith(s, p) == Len(s) >= Len(p) /\ SubSeq(s, Len(s) - Len(p) + 1, Len(s)) = p

\* s.replace(old, new) for a non-empty old: every non-overlapping occurrence,
\* leftmost first.
RECURSIVE replace(_, _, _)
replace(s, old, new) ==
    IF Len(s) < Len(old) THEN s
    ELSE IF SubSeq(s, 1, Len(old)) = old
         THEN new \o replace(SubSeq(s, Len(old) + 1, Len(s)), old, new)
         ELSE <<s[1]>> \o replace(Tail(s), old, new)

\* s.rstrip(chars): drops every trailing character that is a member of chars.
RECURSIVE rstrip(_, _)
rstrip(s, chars) ==
    IF s # <<>> /\ s[Len(s)] \in chars THEN rstrip(SubSeq(s, 1, Len(s) - 1), chars)
    ELSE s

\* s.lower(), on the alphabet of the model.
LowerChar(c) == IF c = "F" THEN "f" ELSE c
lower(s) == [i \in 1..Len(s) |-> LowerChar(s[i])]

\* os.path.basename(p): what follows the last separator.
RECURSIVE basename(_)
basename(p) ==
    IF p = <<>> THEN <<>>
    ELSE IF p[Len(p)] = Sep THEN <<>>
    ELSE basename(SubSeq(p, 1, Len(p) - 1)) \o <<p[Len(p)]>>

\* os.path.join(a, b)
join(a, b) ==
    IF StartsWith(b, <<Sep>>) THEN b
    ELSE IF a = <<>> \/ EndsWith(a, <<Sep>>) THEN a \o b
    ELSE a \o <<Sep>> \o b

(***************************************************************************)
(* base64.                                                                 *)
(***************************************************************************)
B64Chars ==
    << "A", "B", "C", "D", "E", "F", "G", "H", "I", "J", "K", "L", "M",
       "N", "O", "P", "Q", "R", "S", "T", "U", "V", "W", "X", "Y", "Z",
       "a", "b", "c", "d", "e", "f", "g", "h", "i", "j", "k", "l", "m",
       "n", "o", "p", "q", "r", "s", "t", "u", "v", "w", "x", "y", "z",
       "0", "1", "2", "3", "4", "5", "6", "7", "8", "9", "+", "/" >>
B64Pad == "="
Sextet(n, k) == B64Chars[((n \div (64 ^ (3 - k))) % 64) + 1]

\* An encoder that drops a last group of fewer than three bytes.
RECURSIVE b64encodeWholeGroups(_)
b64encodeWholeGroups(b) ==
    IF Len(b) < 3 THEN <<>>
    ELSE LET n == b[1] * 65536 + b[2] * 256 + b[3]
         IN  <<Sextet(n, 0), Sextet(n, 1), Sextet(n, 2), Sextet(n, 3)>>
             \o b64encodeWholeGroups(SubSeq(b, 4, Len(b)))

\* base64.b64encode(b).decode("utf-8"): three bytes give four characters, a
\* last group of one or two bytes is padded with "=".
RECURSIVE b64encode(_)
b64encode(b) ==
    IF b = <<>> THEN <<>>
    ELSE IF Len(b) = 1 THEN
        LET n == b[1] * 65536
        IN  <<Sextet(n, 0), Sextet(n, 1), B64Pad, B64Pad>>
    ELSE IF Len(b) = 2 THEN
        LET n == b[1] * 65536 + b[2] * 256
        IN  <<Sextet(n, 0), Sextet(n, 1), Sextet(n, 2), B64Pad>>
    ELSE
        LET n == b[1] * 65536 + b[2] * 256 + b[3]
        IN  <<Sextet(n, 0), Sextet(n, 1), Sextet(n, 2), Sextet(n, 3)>>
            \o b64encode(SubSeq(b, 4, Len(b)))

(***************************************************************************)
(* The documents.  A fixed text of the source is kept as one token.        *)
(***************************************************************************)
Lit(text) == S(<<text>>)

\* datetime...isoformat() + "Z" of a timezone-aware value.
IsoZ(clock) == S(<<clock, "+00:00", "Z">>)

\* info.get(key, default) on the manifest's dictionary.
Get(d, key, default) == IF d[key].t = "absent" THEN default ELSE d[key]

\* f"{x}": the text of a value.
Str(x) == x.v

create_patch(info) ==
    [ version |-> info.app_version,
      releaseDate |-> info.app_timestamp,
      standalone |-> PyTrue,
      minimumOperatingSystem |-> info.app_min_os,
      reboot |-> PyFalse,
      killApps |-> << [bundleId |-> info.app_bundle_id, appName |-> info.app_name] >>,
      components |->
        << [ name |-> info.app_name,
             version |-> info.app_version,
             criteria |->
               << [ name |-> Lit("Application Bundle ID"), operator |-> Lit("is"),
                    value |-> info.app_bundle_id, type |-> Lit("recon") ],
                  [ name |-> Lit("Application Version"), operator |-> Lit("is"),
                    value |-> info.app_version, type |-> Lit("recon") ] >> ] >>,
      capabilities |->
        << [ name |-> Lit("Operating System Version"),
             operator |-> Lit("greater than or equal"),
             value |-> info.app_min_os, type |-> Lit("recon") ] >>,
      dependencies |-> <<>> ]

\* A publisher that ignores the override.
PublisherIgnoringOverride(info, publisher) == info.app_name
\* A patches list the patch is never put in.
NoPatches(p) == <<>>

\* The dictionary create_patch_definition builds before it reads attachments.
Publisher(info, publisher) == Or(publisher, info.app_name)
Patches(p) == <<p>>
NewDefinition(info, p, publisher) ==
    [ id |-> info.app_id,
      name |-> info.app_name,
      publisher |-> Publisher(info, publisher),
      appName |-> S(Str(info.app_name) \o DotApp),
      bundleId |-> info.app_bundle_id,
      lastModified |-> info.app_last_modified,
      currentVersion |-> info.app_version,
      requirements |->
        << [ name |-> Lit("Application Bundle ID"), operator |-> Lit("is"),
             value |-> info.app_bundle_id, type |-> Lit("recon") ] >>,
      patches |-> Patches(p),
      extensionAttributes |-> <<>> ]

\* One entry of extensionAttributes, for an attachment whose bytes are b.
ExtensionAttribute(info, b) ==
    [ key |-> S(replace(lower(info.app_name.v), <<Space>>, <<"-">>)),
      value |-> S(b64encode(b)),
      displayName |-> info.app_name ]

\* TitleManager.create_full_definition: the publisher is the display name.
TMPublisher(info) == info.app_name
create_full_definition(info, p) ==
    [ id |-> info.app_id,
      name |-> info.app_name,
      publisher |-> TMPublisher(info),
      appName |-> S(Str(info.app_name) \o DotApp),
      bundleId |-> info.app_bundle_id,
      lastModified |-> info.app_last_modified,
      currentVersion |-> info.app_version,
      requirements |->
        << [ name |-> Lit("Application Bundle ID"), operator |-> Lit("is"),
             value |-> info.app_bundle_id, type |-> Lit("recon") ] >>,
      patches |-> Patches(p),
      extensionAttributes |-> <<>> ]

(***************************************************************************)
(* Metadata extraction.  a is the parsed argument record, d the manifest's *)
(* dictionary (every key mapped to its value, or to Absent).               *)
(***************************************************************************)
ManifestKeys ==
    {"CFBundleName", "CFBundleIdentifier", "CFBundleShortVersionString",
     "LSMinimumSystemVersion"}

\* os.path.basename(path).replace(".app", "")
DefaultName(path) == S(replace(basename(path), DotApp, <<>>))

\* A slug that loses only the first space: replace(" ", "", 1).
RECURSIVE DropFirst(_, _)
DropFirst(s, c) ==
    IF s = <<>> THEN s
    ELSE IF s[1] = c THEN Tail(s) ELSE <<s[1]>> \o DropFirst(Tail(s), c)
AppIdFirstSpace(name) == S(DropFirst(name.v, Space))
\* A slug that loses every whitespace character: "".join(name.split()).
AppIdNoWhitespace(name) == S(replace(replace(name.v, <<Space>>, <<>>), <<Tab>>, <<>>))
\* A version the manifest decides before the override is looked at.
AppVersionManifestFirst(a, d) ==
    Get(d, "CFBundleShortVersionString", Or(a.app_version, Lit("0.0.0")))

AppName(a, d) == Or(a.name, Get(d, "CFBundleName", DefaultName(a.path)))
AppId(name) == S(replace(name.v, <<Space>>, <<>>))
AppBundleId(d) == Get(d, "CFBundleIdentifier", Lit("unknown.bundle.id"))
AppVersion(a, d) ==
    Or(a.app_version, Get(d, "CFBundleShortVersionString", Lit("0.0.0")))
AppMinOs(a, d) ==
    Or(a.min_sys_version, Get(d, "LSMinimumSystemVersion", Lit("10.9")))

\* patchstarter.get_app_info, once the manifest is loaded and the display
\* name is a string (app_name.replace raises otherwise).
get_app_info(a, d) ==
    [ app_name |-> AppName(a, d),
      app_id |-> AppId(AppName(a, d)),
      app_bundle_id |-> AppBundleId(d),
      app_version |-> AppVersion(a, d),
      app_min_os |-> AppMinOs(a, d),
      app_last_modified |-> IsoZ("now"),
      app_timestamp |-> IsoZ("mtime") ]

\* TitleManager.extract_app_info: the same derivation without overrides.
TMAppName(app_path, d) == Get(d, "CFBundleName", DefaultName(app_path))
extract_app_info(app_path, d) ==
    [ app_name |-> TMAppName(app_path, d),
      app_id |-> AppId(TMAppName(app_path, d)),
      app_bundle_id |-> AppBundleId(d),
      app_version |-> Get(d, "CFBundleShortVersionString", Lit("0.0.0")),
      app_min_os |-> Get(d, "LSMinimumSystemVersion", Lit("10.9")),
      app_last_modified |-> IsoZ("now"),
      app_timestamp |-> IsoZ("mtime") ]

(***************************************************************************)
(* Serialisation.  json.dump writes the document chunk by chunk; the model *)
(* keeps one chunk per leaf value, in the order of the dictionary's keys,  *)
(* between the chunks of the outer braces.                                 *)
(***************************************************************************)
CriterionLeaves(c) == <<c.name, c.operator, c.value, c.type>>

PatchLeaves(p) ==
    << p.version, p.releaseDate, p.standalone, p.minimumOperatingSystem, p.reboot,
       p.killApps[1].bundleId, p.killApps[1].appName,
       p.components[1].name, p.components[1].version >>
    \o CriterionLeaves(p.components[1].criteria[1])
    \o CriterionLeaves(p.components[1].criteria[2])
    \o CriterionLeaves(p.capabilities[1])

RECURSIVE ExtLeaves(_)
ExtLeaves(es) ==
    IF es = <<>> THEN <<>>
    ELSE <<es[1].key, es[1].value, es[1].displayName>> \o ExtLeaves(Tail(es))

RECURSIVE PatchesLeaves(_)
PatchesLeaves(ps) ==
    IF ps = <<>> THEN <<>> ELSE PatchLeaves(ps[1]) \o PatchesLeaves(Tail(ps))

DefinitionLeaves(d) ==
    << d.id, d.name, d.publisher, d.appName, d.bundleId, d.lastModified,
       d.currentVersion >>
    \o CriterionLeaves(d.requirements[1])
    \o PatchesLeaves(d.patches)
    \o ExtLeaves(d.extensionAttributes)

IsDefinition(doc) == "patches" \in DOMAIN doc
Chunks(doc) ==
    <<Lit("{")>>
    \o (IF IsDefinition(doc) THEN DefinitionLeaves(doc) ELSE PatchLeaves(doc))
    \o <<Lit("}")>>

\* The encoder raises TypeError at the first value it cannot serialise.
Serialisable(x) == x.t # "date"
FirstBad(chunks) ==
    IF \A i \in 1..Len(chunks) : Serialisable(chunks[i]) THEN 0
    ELSE CHOOSE i \in 1..Len(chunks) :
            /\ ~Serialisable(chunks[i])
            /\ \A j \in 1..(i - 1) : Serialisable(chunks[j])

\* save_output's file name.
Filename(app_id, patch_only) ==
    IF patch_only THEN Str(app_id) \o <<"-patch.json">> ELSE Str(app_id) \o <<".json">>

(***************************************************************************)
(* State.                                                                  *)
(***************************************************************************)
VARIABLES
    args,         \* patchstarter: the record parse_arguments returns
    tm_in,        \* title_manager: the arguments of TitleManager(...) and generate(...)
    manifest,     \* the bundle's Contents/Info.plist: [kind, d]
    files,        \* attachment path -> [ok, bytes]
    dirs,         \* the paths that exist on disk (title_manager's glob)
    env,          \* [dir_ok, disk_ok]: can the output file be created, written
    pc,           \* the position of the run
    app_info,     \* the metadata record, None before it is built
    patch,        \* the patch record
    definition,   \* the full definition under construction
    ext_i,        \* index of the next attachment
    output,       \* the document to emit
    out_file,     \* the output file: [exists, name, chunks]
    stdout,       \* what was printed: a sequence of [kind, chunks]
    exit_status,  \* "running", "zero" or "nonzero"
    error,        \* the exception that ended the run, "" if none
    tm,           \* the TitleManager object, None before construction
    reads         \* the attachment paths opened so far, in order

inputs == <<args, tm_in, manifest, files, dirs, env>>
vars ==
    << args, tm_in, manifest, files, dirs, env, pc, app_info, patch, definition,
       ext_i, output, out_file, stdout, exit_status, error, tm, reads >>

(***************************************************************************)
(* title_manager: construction.                                            *)
(***************************************************************************)
\* __init__: app_name.rstrip(".app") if app_name.endswith(".app") else app_name
SelfAppName(app_name) ==
    IF EndsWith(app_name, DotApp) THEN rstrip(app_name, {".", "a", "p"}) ELSE app_name

\* os.path.lexists, on the paths of the model: a directory also exists under
\* its name followed by "/", "/." and its parent under "/..".
DropLast(s, n) == SubSeq(s, 1, Len(s) - n)
lexists(p) ==
    \/ p \in dirs
    \/ EndsWith(p, <<Sep>>) /\ DropLast(p, 1) \in dirs
    \/ EndsWith(p, <<Sep, ".">>) /\ DropLast(p, 2) \in dirs
    \/ EndsWith(p, <<Sep, ".", ".">>) /\ DropLast(p, 3) \in dirs

\* glob.glob of a pattern without wildcard characters.
glob(pattern) == IF lexists(pattern) THEN <<pattern>> ELSE <<>>

\* find_application's search pattern.
SearchPattern(base_path, self_app_name) == join(base_path, self_app_name)

(***************************************************************************)
(* Steps of a run.                                                         *)
(***************************************************************************)
Fail(e) ==
    /\ pc' = "failed"
    /\ error' = e
    /\ exit_status' = "nonzero"

\* app_name.replace(" ", "") on a display name that is not a string: a number,
\* list or dictionary has no replace (AttributeError), a date or data value has
\* one that rejects the arguments (TypeError).  Neither is caught.
ReplaceError(x) == IF x.t = "date" THEN "TypeError" ELSE "AttributeError"

\* patchstarter.get_app_info with load_plist.  A manifest whose top level is
\* not a dictionary has no get (AttributeError).
GetAppInfo ==
    /\ pc = "get_app_info"
    /\ IF manifest.kind = "unreadable"
       THEN Fail("SystemExit: Error reading plist") /\ UNCHANGED app_info
       ELSE IF manifest.kind = "notdict"
       THEN Fail("AttributeError") /\ UNCHANGED app_info
       ELSE IF AppName(args, manifest.d).t # "str"
       THEN Fail(ReplaceError(AppName(args, manifest.d))) /\ UNCHANGED app_info
       ELSE /\ app_info' = get_app_info(args, manifest.d)
            /\ pc' = "create_patch"
            /\ UNCHANGED <<error, exit_status>>
    /\ UNCHANGED <<inputs, patch, definition, ext_i, output, out_file, stdout, tm, reads>>

\* main: create_patch, then the choice of the mode; in full mode the start
\* of create_patch_definition.
CreatePatch ==
    /\ pc = "create_patch"
    /\ patch' = create_patch(app_info)
    /\ IF args.patch_only
       THEN /\ output' = patch'
            /\ pc' = "save_output"
            /\ UNCHANGED <<definition, ext_i>>
       ELSE /\ definition' = NewDefinition(app_info, patch', args.publisher)
            /\ ext_i' = 1
            /\ pc' = "extension_attributes"
            /\ UNCHANGED output
    /\ UNCHANGED <<inputs, app_info, out_file, stdout, exit_status, error, tm, reads>>

\* create_patch_definition: one turn of the loop over args.extension_attribute,
\* or its end.
ReadAttachment ==
    /\ pc = "extension_attributes"
    /\ IF ~Truthy(args.extension_attribute) \/ ext_i > Len(args.extension_attribute.v)
       THEN /\ output' = definition
            /\ pc' = "save_output"
            /\ UNCHANGED <<definition, ext_i, reads, error, exit_status>>
       ELSE LET ext_path == args.extension_attribute.v[ext_i]
            IN  /\ reads' = Append(reads, ext_path)
                /\ IF files[ext_path].ok
                   THEN /\ definition' =
                              [definition EXCEPT !.extensionAttributes =
                                  Append(@, ExtensionAttribute(app_info, files[ext_path].bytes))]
                        /\ ext_i' = ext_i + 1
                        /\ UNCHANGED <<pc, error, exit_status, output>>
                   ELSE /\ Fail("SystemExit: Error reading extension attribute")
                        /\ UNCHANGED <<definition, ext_i, output>>
    /\ UNCHANGED <<inputs, app_info, patch, out_file, stdout, tm>>

\* save_output.
SaveOutput ==
    /\ pc = "save_output"
    /\ LET chunks == Chunks(output)
           bad == FirstBad(chunks)
           \* the chunks json.dump gets to write
           n == IF bad = 0 THEN Len(chunks) ELSE bad - 1
           filename == Filename(app_info.app_id, args.patch_only)
       IN  IF Truthy(args.output)
           THEN IF ~env.dir_ok
                THEN Fail("OSError") /\ UNCHANGED <<out_file, stdout>>
                ELSE IF ~env.disk_ok
                THEN \E k \in 0..(n - 1) :
                        /\ out_file' = [exists |-> TRUE, name |-> filename,
                                        chunks |-> SubSeq(chunks, 1, k)]
                        /\ Fail("OSError")
                        /\ UNCHANGED stdout
                ELSE IF bad # 0
                THEN /\ out_file' = [exists |-> TRUE, name |-> filename,
                                     chunks |-> SubSeq(chunks, 1, n)]
                     /\ Fail("TypeError")
                     /\ UNCHANGED stdout
                ELSE /\ out_file' = [exists |-> TRUE, name |-> filename, chunks |-> chunks]
                     /\ stdout' = Append(stdout, [kind |-> "message", chunks |-> <<>>])
                     /\ pc' = "done"
                     /\ exit_status' = "zero"
                     /\ UNCHANGED error
           ELSE IF bad # 0
                THEN Fail("TypeError") /\ UNCHANGED <<out_file, stdout>>
                ELSE /\ stdout' = Append(stdout, [kind |-> "document", chunks |-> chunks])
                     /\ pc' = "done"
                     /\ exit_status' = "zero"
                     /\ UNCHANGED <<out_file, error>>
    /\ UNCHANGED <<inputs, app_info, patch, definition, ext_i, output, tm, reads>>

\* TitleManager.__init__ with find_application.
TMInit ==
    /\ pc = "TitleManager"
    /\ LET self_app_name == SelfAppName(tm_in.app_name)
           matches == glob(SearchPattern(tm_in.base_path, self_app_name))
       IN  IF matches = <<>>
           THEN Fail("ValueError") /\ UNCHANGED tm
           ELSE /\ tm' = [ app_name |-> self_app_name,
                           base_path |-> tm_in.base_path,
                           patch_only |-> tm_in.patch_only,
                           app_path |-> matches[1] ]
                /\ pc' = "generate"
                /\ UNCHANGED <<error, exit_status>>
    /\ UNCHANGED <<inputs, app_info, patch, definition, ext_i, output, out_file,
                   stdout, reads>>

\* TitleManager.generate.
TMGenerate ==
    /\ pc = "generate"
    /\ IF manifest.kind = "unreadable"
       THEN Fail("RuntimeError") /\ UNCHANGED <<app_info, patch, output>>
       ELSE IF manifest.kind = "notdict"
       THEN Fail("AttributeError") /\ UNCHANGED <<app_info, patch, output>>
       ELSE IF TMAppName(tm.app_path, manifest.d).t # "str"
       THEN Fail(ReplaceError(TMAppName(tm.app_path, manifest.d)))
            /\ UNCHANGED <<app_info, patch, output>>
       ELSE LET info == extract_app_info(tm.app_path, manifest.d)
                p == create_patch(info)
                out == IF tm.patch_only THEN p ELSE create_full_definition(info, p)
            IN  /\ app_info' = info
                /\ patch' = p
                /\ output' = out
                /\ IF tm_in.pretty_print /\ FirstBad(Chunks(out)) # 0
                   THEN Fail("TypeError")
                   ELSE pc' = "returned" /\ UNCHANGED <<error, exit_status>>
    /\ UNCHANGED <<inputs, definition, ext_i, out_file, stdout, tm, reads>>

\* The script part of title_manager: print(output).
TMPrint ==
    /\ pc = "returned"
    /\ stdout' = Append(stdout, [kind |-> "document", chunks |-> Chunks(output)])
    /\ pc' = "done"
    /\ exit_status' = "zero"
    /\ UNCHANGED <<inputs, app_info, patch, definition, ext_i, output, out_file,
                   error, tm, reads>>

(***************************************************************************)
(* Initial states: the inputs of a run.  Each family below varies some of  *)
(* the inputs over a bounded set and keeps the others at a base value.     *)
(***************************************************************************)
Tokens == {<<"F">>, <<"e">>, <<"a">>, <<"p">>, <<".">>, <<Space>>, <<Tab>>, DotApp}

\* The names made of at most n tokens.
RECURSIVE Words(_)
Words(n) ==
    IF n = 0 THEN {<<>>}
    ELSE LET W == Words(n - 1) IN W \cup {w \o t : w \in W, t \in Tokens}

\* The byte strings of at most n bytes.
Bytes == {0, 65, 255}
RECURSIVE Contents(_)
Contents(n) ==
    IF n = 0 THEN {<<>>}
    ELSE LET C == Contents(n - 1) IN C \cup {c \o <<b>> : c \in C, b \in Bytes}

\* The lists of at most n attachment paths.
AttachPaths == {"e1", "e2"}
RECURSIVE PathLists(_)
PathLists(n) ==
    IF n = 0 THEN {<<>>}
    ELSE LET L == PathLists(n - 1) IN L \cup {l \o <<p>> : l \in L, p \in AttachPaths}

Prefixes(w) == {SubSeq(w, 1, k) : k \in 0..Len(w)}

BaseDir == <<Sep, "A">>
BaseName == <<"F", "e">>
BasePath == join(BaseDir, BaseName \o DotApp)
OutDir == S(<<"o", "u", "t">>)

Dict(name, id, version, min_os) ==
    [k \in ManifestKeys |->
        CASE k = "CFBundleName" -> name
          [] k = "CFBundleIdentifier" -> id
          [] k = "CFBundleShortVersionString" -> version
          [] k = "LSMinimumSystemVersion" -> min_os]
Readable(d) == [kind |-> "dict", d |-> d]
BaseVersion == S(<<"1", ".", "0">>)
BaseId == Lit("com.example.app")
BaseManifest == Readable(Dict(S(<<"e", Space, "F">>), BaseId, BaseVersion, Absent))

BaseArgs ==
    [ path |-> BasePath, output |-> None, publisher |-> S(<<>>), name |-> S(<<>>),
      extension_attribute |-> None, app_version |-> None, min_sys_version |-> None,
      patch_only |-> FALSE ]
BaseTM ==
    [ app_name |-> BaseName \o DotApp, base_path |-> BaseDir, patch_only |-> FALSE,
      pretty_print |-> TRUE ]
File(b) == [ok |-> TRUE, bytes |-> b]
Unreadable == [ok |-> FALSE, bytes |-> <<>>]
BaseFiles == [p \in AttachPaths |-> File(<<65>>)]
BaseDirs == {BaseDir, join(BaseDir, BaseName)}
BaseEnv == [dir_ok |-> TRUE, disk_ok |-> TRUE]

Start(program, a, t, m, f, d, e) ==
    /\ args = a
    /\ tm_in = t
    /\ manifest = m
    /\ files = f
    /\ dirs = d
    /\ env = e
    /\ pc = IF program = "patchstarter" THEN "get_app_info" ELSE "TitleManager"
    /\ app_info = None
    /\ patch = None
    /\ definition = None
    /\ ext_i = 1
    /\ output = None
    /\ out_file = [exists |-> FALSE, name |-> <<>>, chunks |-> <<>>]
    /\ stdout = <<>>
    /\ exit_status = "running"
    /\ error = ""
    /\ tm = None
    /\ reads = <<>>

StartPS(a, m, f, e) == Start("patchstarter", a, BaseTM, m, f, BaseDirs, e)
StartTM(t, m, d) == Start("title_manager", BaseArgs, t, m, BaseFiles, d, BaseEnv)

\* patchstarter, the display name: a generated name as the override, as the
\* manifest's CFBundleName, or as the bundle's file name.
InitNames ==
    \E w \in Words(MaxParts), po \in BOOLEAN :
        LET a == [BaseArgs EXCEPT !.patch_only = po, !.output = OutDir]
            unnamed == Readable(Dict(Absent, BaseId, BaseVersion, Absent))
        IN  \/ \E m \in {unnamed, BaseManifest} :
                  StartPS([a EXCEPT !.name = S(w)], m, BaseFiles, BaseEnv)
            \/ StartPS(a, Readable(Dict(S(w), BaseId, BaseVersion, Absent)),
                       BaseFiles, BaseEnv)
            \/ \E tail \in {<<>>, <<Sep>>} :
                  StartPS([a EXCEPT !.path = join(BaseDir, w) \o tail], unnamed,
                          BaseFiles, BaseEnv)

\* title_manager, the requested application: a generated name, with at most
\* one directory on disk besides base_path; or a generated CFBundleName.
InitTMNames ==
    \E w \in Words(MaxParts), po \in BOOLEAN :
        LET unnamed == Readable(Dict(Absent, BaseId, BaseVersion, Absent))
            candidates == Prefixes(w) \cup {w \o DotApp}
        IN  \/ \E D \in {{}} \cup {{join(BaseDir, c)} : c \in candidates \ {<<>>}} :
                  StartTM([BaseTM EXCEPT !.app_name = w, !.patch_only = po], unnamed,
                          {BaseDir} \cup D)
            \/ StartTM([BaseTM EXCEPT !.patch_only = po],
                       Readable(Dict(S(w), BaseId, BaseVersion, Absent)), BaseDirs)

\* Both programs, the fields: overrides and manifest values present, absent,
\* empty, or of another type than a string; manifests that cannot be read.
VersionOverrides == {None, S(<<>>), S(<<"2", ".", "0">>)}
ManifestVersions == {Absent, BaseVersion, S(<<>>), PyInt, PyDate}
MinOsOverrides == {None, S(<<"1", "1">>)}
ManifestMinOs == {Absent, S(<<"1", "2">>), PyInt}
NameOverrides == {S(<<>>), S(<<"F", Space, "e">>)}
ManifestNames == {Absent, S(<<"e", Space, "F">>), PyInt, PyDate}
ManifestIds == {Absent, BaseId, PyDate}
Manifests ==
    {Readable(Dict(n, i, v, m)) :
        n \in ManifestNames, i \in ManifestIds, v \in ManifestVersions, m \in ManifestMinOs}
    \cup {[kind |-> k, d |-> BaseManifest.d] : k \in {"unreadable", "notdict"}}

InitFields ==
    \E m \in Manifests, po \in BOOLEAN :
        \/ \E n \in NameOverrides, v \in VersionOverrides, o \in MinOsOverrides,
              out \in {None, OutDir} :
                StartPS([BaseArgs EXCEPT !.name = n, !.app_version = v,
                                         !.min_sys_version = o, !.patch_only = po,
                                         !.output = out],
                        m, BaseFiles, BaseEnv)
        \/ \E pp \in BOOLEAN :
                StartTM([BaseTM EXCEPT !.patch_only = po, !.pretty_print = pp], m, BaseDirs)

\* patchstarter, the attachments: a list of paths and the bytes of the files.
\* The parser gives None for no -e option; the empty list is what a caller of
\* create_patch_definition can pass.
InitAttachments ==
    \E l \in {None} \cup {[t |-> "list", v |-> x] : x \in PathLists(MaxAttach)},
       f1 \in {Unreadable} \cup {File(b) : b \in Contents(MaxFileLen)},
       f2 \in {Unreadable, File(<<255, 0>>)},
       po \in BOOLEAN, out \in {None, OutDir} :
        StartPS([BaseArgs EXCEPT !.extension_attribute = l, !.patch_only = po,
                                 !.output = out],
                BaseManifest, [p \in AttachPaths |-> IF p = "e1" THEN f1 ELSE f2], BaseEnv)

\* patchstarter, the output: publisher, destination, and what can fail on the way.
Publishers == {None, S(<<>>), S(<<"P", "u", "b">>)}
InitOutput ==
    \E l \in {None} \cup {[t |-> "list", v |-> x] : x \in PathLists(MaxAttach)},
       f1 \in {Unreadable, File(<<65>>)},
       pub \in Publishers, po \in BOOLEAN, out \in {None, OutDir},
       dir_ok \in BOOLEAN, disk_ok \in BOOLEAN,
       v \in {BaseVersion, PyDate} :
        StartPS([BaseArgs EXCEPT !.extension_attribute = l, !.patch_only = po,
                                 !.output = out, !.publisher = pub],
                Readable(Dict(S(<<"e", Space, "F">>), BaseId, v, Absent)),
                [p \in AttachPaths |-> IF p = "e1" THEN f1 ELSE File(<<255, 0>>)],
                [dir_ok |-> dir_ok, disk_ok |-> disk_ok])

Init == InitNames \/ InitTMNames \/ InitFields \/ InitAttachments \/ InitOutput

Next ==
    \/ GetAppInfo
    \/ CreatePatch
    \/ ReadAttachment
    \/ SaveOutput
    \/ TMInit
    \/ TMGenerate
    \/ TMPrint

Spec == Init /\ [][Next]_vars

(***************************************************************************)
(* Properties.                                                             *)
(***************************************************************************)
HasInfo == "app_id" \in DOMAIN app_info
IsTM == "app_path" \in DOMAIN tm
HasOutput == "version" \in DOMAIN output \/ "patches" \in DOMAIN output
FullOutput == "patches" \in DOMAIN output
Chars(s) == {s[i] : i \in 1..Len(s)}

\* An override counts as supplied when it is a non-empty string: the parser's
\* default for an omitted --name is "", and the code reads every override with
\* "override or ...".
Supplied(x) == x.t = "str" /\ x.v # <<>>
Declared(key) == manifest.d[key].t # "absent"
Derived(override, key, default, result) ==
    /\ Supplied(override) => result = override
    /\ ~Supplied(override) /\ Declared(key) => result = manifest.d[key]
    /\ ~Supplied(override) /\ ~Declared(key) => result = default

\* C1: in get_app_info a supplied override is the result whatever the manifest
\* declares; without an override the manifest's value is the result; with
\* neither, version is "0.0.0" and minimum OS "10.9"; the bundle identifier is
\* the manifest's, or "unknown.bundle.id" when the manifest has none.
C1_OverridePrecedence ==
    HasInfo /\ ~IsTM =>
        /\ Supplied(args.name) => app_info.app_name = args.name
        /\ ~Supplied(args.name) /\ Declared("CFBundleName")
              => app_info.app_name = manifest.d["CFBundleName"]
        /\ Derived(args.app_version, "CFBundleShortVersionString", Lit("0.0.0"),
                   app_info.app_version)
        /\ Derived(args.min_sys_version, "LSMinimumSystemVersion", Lit("10.9"),
                   app_info.app_min_os)
        /\ app_info.app_bundle_id =
              IF Declared("CFBundleIdentifier") THEN manifest.d["CFBundleIdentifier"]
              ELSE Lit("unknown.bundle.id")

C1_Witness ==
    /\ HasInfo /\ ~IsTM
    /\ Supplied(args.app_version) /\ Declared("CFBundleShortVersionString")
    /\ manifest.d["CFBundleShortVersionString"] # args.app_version
    /\ Supplied(args.name) /\ Declared("CFBundleName")
    /\ ~Supplied(args.min_sys_version) /\ ~Declared("LSMinimumSystemVersion")
    /\ app_info.app_version = args.app_version
    /\ app_info.app_min_os = Lit("10.9")

\* What was emitted: the documents printed, and the chunks left in the file.
PrintedDocuments == {i \in 1..Len(stdout) : stdout[i].kind = "document"}
FileComplete == out_file.exists /\ HasOutput /\ out_file.chunks = Chunks(output)
ReadsSucceeded == \A i \in 1..Len(reads) : files[reads[i]].ok

\* C2: a run of main is all-or-nothing: a failed run exits non-zero and leaves
\* no complete or partial document in the output file or on standard output; a
\* run without failure exits zero after emitting exactly one document; a
\* document is emitted only after the manifest and every attachment were read.
C2_AllOrNothing ==
    /\ pc = "failed" =>
          /\ exit_status = "nonzero"
          /\ out_file.chunks = <<>>
          /\ PrintedDocuments = {}
    /\ pc = "done" =>
          /\ exit_status = "zero"
          /\ Cardinality(PrintedDocuments) + (IF FileComplete THEN 1 ELSE 0) = 1
    /\ (out_file.chunks # <<>> \/ PrintedDocuments # {}) =>
          manifest.kind = "dict" /\ ReadsSucceeded

PatchFields ==
    {"version", "releaseDate", "standalone", "minimumOperatingSystem", "reboot",
     "killApps", "components", "capabilities", "dependencies"}
Mode == IF IsTM THEN tm_in.patch_only ELSE args.patch_only

\* C3: the patch-only output is the bare patch object, without id, publisher
\* or extensionAttributes; the full output has a patches list of exactly one
\* element, equal to the patch built from the same metadata; both in
\* patchstarter.main and in TitleManager.generate, and the mode that shapes the
\* output is the one the patch-only flag requested.
C3_PatchOnlyAndFullAgree ==
    /\ IsTM => tm.patch_only = tm_in.patch_only
    /\ HasOutput =>
          /\ DOMAIN patch = PatchFields
          /\ patch.version = app_info.app_version
          /\ patch.minimumOperatingSystem = app_info.app_min_os
          /\ patch.killApps[1].bundleId = app_info.app_bundle_id
          /\ IF Mode
             THEN /\ DOMAIN output = PatchFields
                  /\ DOMAIN output \cap {"id", "publisher", "extensionAttributes"} = {}
                  /\ output = patch
             ELSE /\ FullOutput
                  /\ Len(output.patches) = 1
                  /\ output.patches[1] = patch

C3_Witness ==
    /\ pc = "done" /\ ~Mode /\ FullOutput
    /\ Len(output.patches) = 1
    /\ Supplied(args.app_version)
    /\ output.patches[1].version = args.app_version

\* base64 decoding: four characters give three bytes, padding fewer.
B64Index(c) == CHOOSE i \in 0..63 : B64Chars[i + 1] = c
ValidBase64(s) == Len(s) % 4 = 0 /\ \A i \in 1..Len(s) : s[i] \in Chars(B64Chars) \cup {B64Pad}
RECURSIVE b64decode(_)
b64decode(s) ==
    IF Len(s) < 4 THEN <<>>
    ELSE LET i1 == B64Index(s[1])
             i2 == B64Index(s[2])
             rest == b64decode(SubSeq(s, 5, Len(s)))
         IN  IF s[3] = B64Pad THEN <<i1 * 4 + i2 \div 16>> \o rest
             ELSE LET i3 == B64Index(s[3])
                  IN  IF s[4] = B64Pad
                      THEN <<i1 * 4 + i2 \div 16, (i2 % 16) * 16 + i3 \div 4>> \o rest
                      ELSE << i1 * 4 + i2 \div 16, (i2 % 16) * 16 + i3 \div 4,
                              (i3 % 4) * 64 + B64Index(s[4]) >> \o rest

SuppliedPaths ==
    IF args.extension_attribute.t = "list" THEN args.extension_attribute.v ELSE <<>>

\* C4: when create_patch_definition succeeds, extensionAttributes has one entry
\* per supplied path, in the order supplied, repeated paths included; the i-th
\* value is valid base64 and decodes to the bytes of the i-th path's file; with
\* no attachments the list is empty.
C4_ExtensionAttributesRoundTrip ==
    HasOutput /\ FullOutput /\ ~IsTM =>
        /\ Len(output.extensionAttributes) = Len(SuppliedPaths)
        /\ \A i \in 1..Len(SuppliedPaths) :
              /\ ValidBase64(output.extensionAttributes[i].value.v)
              /\ b64decode(output.extensionAttributes[i].value.v)
                    = files[SuppliedPaths[i]].bytes

C4_Witness ==
    /\ pc = "done" /\ FullOutput /\ ~IsTM
    /\ SuppliedPaths = <<"e2", "e1">>
    /\ Len(files["e1"].bytes) = MaxFileLen
    /\ Len(output.extensionAttributes) = 2
    /\ output.extensionAttributes[1].value # output.extensionAttributes[2].value

C4_WitnessRepeated ==
    /\ pc = "done" /\ FullOutput /\ ~IsTM
    /\ SuppliedPaths = <<"e1", "e1">>
    /\ Len(output.extensionAttributes) = 2

\* C5: in the full definition of create_patch_definition publisher is the
\* display name when the publisher override is empty or absent and the
\* override when one is supplied; TitleManager.create_full_definition sets
\* publisher to the display name.
C5_Publisher ==
    /\ "publisher" \in DOMAIN definition =>
          definition.publisher =
              IF Supplied(args.publisher) THEN args.publisher ELSE app_info.app_name
    /\ HasOutput /\ FullOutput =>
          output.publisher =
              IF ~IsTM /\ Supplied(args.publisher) THEN args.publisher
              ELSE app_info.app_name

C5_Witness ==
    /\ pc = "done" /\ FullOutput /\ ~IsTM
    /\ Supplied(args.publisher)
    /\ args.publisher # app_info.app_name
    /\ output.publisher = args.publisher

NotSpace(c) == c # Space
FilenameSuffix == IF args.patch_only THEN <<"-patch.json">> ELSE <<".json">>

\* C6: app_id is the display name with every space character removed and holds
\* no space, in get_app_info and in TitleManager.extract_app_info; it is the id
\* of the full definition and the stem of the output file's name.
C6_SlugIsNameWithoutSpaces ==
    HasInfo =>
        /\ app_info.app_id = S(SelectSeq(app_info.app_name.v, NotSpace))
        /\ Space \notin Chars(app_info.app_id.v)
        /\ "id" \in DOMAIN definition => definition.id = app_info.app_id
        /\ HasOutput /\ FullOutput => output.id = app_info.app_id
        /\ out_file.exists => out_file.name = app_info.app_id.v \o FilenameSuffix

C6_Witness ==
    /\ pc = "done" /\ HasInfo /\ FullOutput /\ out_file.exists
    /\ Space \in Chars(app_info.app_name.v)
    /\ Len(app_info.app_id.v) + 2 = Len(app_info.app_name.v)
    /\ output.id = app_info.app_id

C6_WitnessTM ==
    /\ pc = "done" /\ HasInfo /\ FullOutput /\ IsTM
    /\ Space \in Chars(app_info.app_name.v)

Whitespace == {Space, Tab}
IsWhitespace(c) == c \in Whitespace
IsTab(c) == c = Tab

\* C7 as stated: app_id contains no whitespace character at all.
C7_NoWhitespaceInSlug ==
    HasInfo => Chars(app_info.app_id.v) \cap Whitespace = {}

\* C7: the slug is computed by removing the space characters of the display
\* name, and only those: app_id holds no space, and the whitespace that is not
\* a space (a tab) of the display name is kept in app_id, in order.
C7_OnlySpacesStripped ==
    HasInfo =>
        /\ Space \notin Chars(app_info.app_id.v)
        /\ SelectSeq(app_info.app_id.v, IsWhitespace)
              = SelectSeq(app_info.app_name.v, IsTab)

C7_Witness ==
    /\ HasInfo
    /\ Tab \in Chars(app_info.app_name.v)
    /\ Space \in Chars(app_info.app_name.v)
    /\ Tab \in Chars(app_info.app_id.v)

\* The bundle's last path component, and a name minus one trailing ".app".
RECURSIVE LastComponent(_)
LastComponent(p) ==
    IF p # <<>> /\ p[Len(p)] = Sep THEN LastComponent(DropLast(p, 1)) ELSE basename(p)
StripSuffix(s) == IF EndsWith(s, DotApp) THEN DropLast(s, Len(DotApp)) ELSE s
BundlePath == IF IsTM THEN tm.app_path ELSE args.path
Letters == {"F", "e"}
StartsWithLetter(s) == s # <<>> /\ s[1] \in Letters

\* C8: without a display-name override and without CFBundleName the display
\* name is the last path component of the bundle minus one trailing ".app"
\* (stated for the bundles whose file name begins with a letter).
C8_DefaultNameStripsSuffix ==
    HasInfo /\ (IsTM \/ ~Truthy(args.name)) /\ ~Declared("CFBundleName")
            /\ StartsWithLetter(LastComponent(BundlePath)) =>
        app_info.app_name = S(StripSuffix(LastComponent(BundlePath)))

NonStringDeclared ==
    /\ manifest.kind = "dict"
    /\ \E k \in ManifestKeys : manifest.d[k].t \notin {"str", "absent"}

\* C9: a manifest value that is not a string is rejected with the
\* metadata-read error: the run ends with that error, not with a document and
\* not with another failure.
C9_NonStringRejected ==
    NonStringDeclared /\ pc \in {"done", "failed", "returned"} =>
        error \in {"SystemExit: Error reading plist", "RuntimeError"}

RequestedStem == StripSuffix(tm_in.app_name)
RequestedBundle == join(tm_in.base_path, RequestedStem \o DotApp)
\* The directories that match the request: the bundle, or the bare stem.
Matching == {RequestedBundle, join(tm_in.base_path, RequestedStem)}
Constructed == IsTM
ConstructionEnded == IsTM \/ error = "ValueError"

\* C10: constructing a TitleManager fails with the bundle-not-found error if
\* and only if no directory under base_path matches the requested application;
\* when the application's bundle directory exists, construction succeeds and
\* app_path is that directory (stated for the requests that begin with a
\* letter).
C10_FoundIffBundleExists ==
    ConstructionEnded /\ StartsWithLetter(RequestedStem) =>
        /\ error = "ValueError" <=> Matching \cap dirs = {}
        /\ RequestedBundle \in dirs => Constructed /\ tm.app_path = RequestedBundle

====
